---- MODULE Spec2Model ----
(***************************************************************************)
(* Model of inventory/dynamic_inventory.py: a dynamic Ansible inventory    *)
(* script that runs `tofu output -json`, parses its standard output and    *)
(* prints an inventory document (--list), or prints {} (--host <name>).    *)
(*                                                                         *)
(* One run of the script is one behaviour.  The command line and the       *)
(* behaviour of the external command are fixed in the initial state; the   *)
(* actions are the steps of main(), build_inventory() and                  *)
(* get_tofu_outputs() in program order.                                    *)
(***************************************************************************)
EXTENDS Integers, Sequences, FiniteSets, TLC

VARIABLES
    argv,       \* sys.argv (argv[1] is the program name)
    tofu,       \* what the external command does when it is run
    pc,         \* position of the process
    spawned,    \* number of child processes started so far
    child,      \* "none", "running" or "exited"
    outputs,    \* local `outputs` of build_inventory (result of json.loads)
    public_ip,  \* local `public_ip` of build_inventory
    ssh_user,   \* local `ssh_user` of build_inventory
    inventory,  \* local `inventory` (the dict build_inventory returns)
    stdout,     \* what the process has written to standard output
    stderr,     \* what the process has written to the error stream
    exitcode    \* exit status, NotExited while the process runs

vars == << argv, tofu, pc, spawned, child, outputs, public_ip, ssh_user,
           inventory, stdout, stderr, exitcode >>

-----------------------------------------------------------------------------
(* Bounds *)

\* Largest number of command-line arguments after the program name.
MaxArgs == 3

-----------------------------------------------------------------------------
(* JSON values.  A value is a record [t, s]: its JSON type and its text.   *)

Str(s)  == [t |-> "str",  s |-> s]
Num(s)  == [t |-> "num",  s |-> s]
List(s) == [t |-> "list", s |-> s]
Null    == [t |-> "null", s |-> "null"]

\* A local that has not been assigned yet.
Unset   == [t |-> "unset", s |-> ""]

\* Values the `value` field of instance_public_ip takes in the model.
IpValues == { Null, Str(""), Str("203.0.113.5"), Num("0"), Num("5"),
              List("[]"), List("[\"203.0.113.5\"]") }

\* Values the `value` field of ssh_user takes in the model.
UserValues == { Null, Str(""), Str("ubuntu") }

\* An entry of the top-level mapping: the key is missing, or it maps to
\* something that is not an object, or to an object with or without a
\* `value` member.
MissingEntry  == [k |-> "missing", has |-> FALSE, value |-> Null]
NonObjEntry   == [k |-> "nonobj",  has |-> FALSE, value |-> Null]
ObjNoValue    == [k |-> "obj",     has |-> FALSE, value |-> Null]
ObjValue(v)   == [k |-> "obj",     has |-> TRUE,  value |-> v]

IpEntries   == { MissingEntry, NonObjEntry, ObjNoValue } \cup { ObjValue(v) : v \in IpValues }
UserEntries == { MissingEntry, NonObjEntry, ObjNoValue } \cup { ObjValue(v) : v \in UserValues }

\* A parsed document: a mapping with the two entries the script reads, or a
\* JSON value that is not a mapping (a list, a string, null, a number).
Mapping(ip, user) == [k |-> "mapping", instance_public_ip |-> ip, ssh_user |-> user]
NonMapping        == [k |-> "other", instance_public_ip |-> MissingEntry, ssh_user |-> MissingEntry]
NotParsed         == [k |-> "unset", instance_public_ip |-> MissingEntry, ssh_user |-> MissingEntry]

JsonDocs == { Mapping(ip, user) : ip \in IpEntries, user \in UserEntries } \cup { NonMapping }

-----------------------------------------------------------------------------
(* The external command *)

\* What the child writes to its standard output: bytes that are not text in
\* the locale's encoding, text that is not JSON, or a JSON document.
ChildStdouts ==
    { [kind |-> "bytes", doc |-> NotParsed], [kind |-> "garbage", doc |-> NotParsed] }
    \cup { [kind |-> "json", doc |-> d] : d \in JsonDocs }

\* What the child writes to its error stream.
ChildStderrs == { "", "Error: No outputs found" }

ReturnCodes == { 0, 1 }

\* lookup: "ok" (an executable tofu is on the search path), "missing" (no
\* tofu on the search path), "noexec" (a tofu that may not be executed).
TofuBehaviours ==
    [ lookup : {"ok", "missing", "noexec"},
      returncode : ReturnCodes,
      out : ChildStdouts,
      err : ChildStderrs ]

-----------------------------------------------------------------------------
(* Command line *)

ArgTokens == { "--list", "--host", "web1", "--graph" }

ArgLists == UNION { [1..n -> ArgTokens] : n \in 0..MaxArgs }

ProgramName == "dynamic_inventory.py"

\* The test of line 84 without the length check.
IsListInvocationNoLen(a) == Len(a) >= 2 /\ a[2] = "--list"
\* dynamic_inventory.py:84
IsListInvocation(a) == Len(a) = 2 /\ a[2] = "--list"

\* The test of line 87 with the length off by one.
IsHostInvocationOffByOne(a) == Len(a) = 2 /\ a[2] = "--host"
\* dynamic_inventory.py:87
IsHostInvocation(a) == Len(a) = 3 /\ a[2] = "--host"

-----------------------------------------------------------------------------
(* Messages.  A message is its kind and the pieces of text it is made of.  *)

NotExited == -1

IntToStr(n) == CASE n = 0 -> "0" [] n = 1 -> "1" [] n = 2 -> "2" [] OTHER -> "?"

\* str(CalledProcessError): the command and its exit status.
CalledProcessErrorStr(rc) ==
    << "Command '['tofu', 'output', '-json']' returned non-zero exit status ", IntToStr(rc), "." >>

\* dynamic_inventory.py:30
MsgCalledProcessError(rc) ==
    [kind |-> "error", parts |-> << "Error running tofu output: " >> \o CalledProcessErrorStr(rc)]

\* The message of line 30 copied to line 33 unchanged.
MsgJSONDecodeErrorCopied ==
    [kind |-> "error", parts |-> << "Error running tofu output: " >> \o CalledProcessErrorStr(1)]
\* dynamic_inventory.py:33
MsgJSONDecodeError ==
    [kind |-> "error", parts |-> << "Error parsing tofu output: ", "Expecting value: line 1 column 1 (char 0)" >>]

\* dynamic_inventory.py:36
MsgFileNotFound ==
    [kind |-> "error", parts |-> << "Error: 'tofu' command not found. Please ensure OpenTofu is installed." >>]

\* dynamic_inventory.py:54
MsgNoPublicIp ==
    [kind |-> "error", parts |-> << "Error: No public IP found in OpenTofu outputs" >>]

\* dynamic_inventory.py:91
MsgUsage ==
    [kind |-> "usage", parts |-> << "Usage: dynamic_inventory.py --list or --host <hostname>" >>]

\* What the interpreter writes for an exception no handler catches.
Traceback(exc) ==
    [kind |-> "traceback", parts |-> << "Traceback (most recent call last):", exc >>]

\* The message contains the text.
Contains(msg, text) == text = "" \/ \E i \in 1..Len(msg.parts) : msg.parts[i] = text

-----------------------------------------------------------------------------
(* Pure helpers of build_inventory *)

\* The result of an expression: the exception it raises ("" when none) and
\* its value.
Value(v)  == [exc |-> "",  val |-> v]
Raise(e)  == [exc |-> e,   val |-> Unset]

\* The lookup below with the default of the second get left out.
DictGetValueNoDefault(outs, entry, default) ==
    IF outs.k # "mapping" THEN Raise("AttributeError")
    ELSE CASE entry.k = "missing" -> Value(Null)
           [] entry.k = "nonobj"  -> Raise("AttributeError")
           [] entry.k = "obj"     -> IF entry.has THEN Value(entry.value) ELSE Value(Null)
\* outs.get(key, {}).get('value', default) for one of the two keys, `entry`
\* being outs[key].  Only a dict has a get method.
DictGetValue(outs, entry, default) ==
    IF outs.k # "mapping" THEN Raise("AttributeError")
    ELSE CASE entry.k = "missing" -> Value(default)
           [] entry.k = "nonobj"  -> Raise("AttributeError")
           [] entry.k = "obj"     -> IF entry.has THEN Value(entry.value) ELSE Value(default)

\* dynamic_inventory.py:50
GetPublicIp(outs) == DictGetValue(outs, outs.instance_public_ip, Null)

\* dynamic_inventory.py:51
DefaultSshUser == Str("ec2-user")
GetSshUser(outs) == DictGetValue(outs, outs.ssh_user, DefaultSshUser)

\* Python truth value of a JSON value (`not public_ip`, line 53).
Truthy(v) ==
    CASE v.t = "null" -> FALSE
      [] v.t = "str"  -> v.s # ""
      [] v.t = "num"  -> v.s # "0"
      [] v.t = "list" -> v.s # "[]"
      [] OTHER        -> FALSE

\* A value that can be a dict key: a list cannot.
Hashable(v) == v.t # "list"

PrivateKeyFile == Str("./demo-key")

NoInventory ==
    [ web_servers |-> [ hosts |-> << >>,
                        vars  |-> [ ansible_user |-> Unset,
                                    ansible_ssh_private_key_file |-> Unset ] ],
      meta        |-> [ hostvars |-> << >> ] ]

\* The document below with hostvars keyed by the user instead of the host.
InventoryDictKeyedByUser(ip, user) ==
    [ web_servers |-> [ hosts |-> << ip >>,
                        vars  |-> [ ansible_user |-> user,
                                    ansible_ssh_private_key_file |-> PrivateKeyFile ] ],
      meta        |-> [ hostvars |->
                          [ h \in {user} |-> [ ansible_host |-> ip,
                                               ansible_user |-> user ] ] ] ]
\* dynamic_inventory.py:58-74 (meta is the "_meta" member).
InventoryDict(ip, user) ==
    [ web_servers |-> [ hosts |-> << ip >>,
                        vars  |-> [ ansible_user |-> user,
                                    ansible_ssh_private_key_file |-> PrivateKeyFile ] ],
      meta        |-> [ hostvars |->
                          [ h \in {ip} |-> [ ansible_host |-> ip,
                                             ansible_user |-> user ] ] ] ]

\* json.dumps writes every dict key as a string.
KeyText(v) == v.s

\* json.dumps(inventory, indent=2), line 86: the document as printed.
JsonDumps(inv, indent) ==
    LET hv == inv.meta.hostvars IN
    [ indent      |-> indent,
      web_servers |-> inv.web_servers,
      meta        |-> [ hostvars |->
                          [ key \in { KeyText(h) : h \in DOMAIN hv } |->
                              hv[CHOOSE h \in DOMAIN hv : KeyText(h) = key] ] ] ]

\* json.dumps({}), line 89.
EmptyObjectText == "{}"

\* Exit status of sys.exit(1) and of an uncaught exception.
FailureStatus == 1

-----------------------------------------------------------------------------
(* The run *)

Init ==
    /\ argv \in { << ProgramName >> \o a : a \in ArgLists }
    /\ tofu \in TofuBehaviours
    /\ pc = "main"
    /\ spawned = 0
    /\ child = "none"
    /\ outputs = NotParsed
    /\ public_ip = Unset
    /\ ssh_user = Unset
    /\ inventory = NoInventory
    /\ stdout = << >>
    /\ stderr = << >>
    /\ exitcode = NotExited

\* print(msg, file=sys.stderr); sys.exit(1)
Die(msg) ==
    /\ stderr' = Append(stderr, msg)
    /\ exitcode' = FailureStatus
    /\ pc' = "exit"

\* An exception that no handler catches ends the process with a traceback.
Uncaught(exc) == Die(Traceback(exc))

\* main, line 84-85: --list calls build_inventory, which calls get_tofu_outputs.
MainList ==
    /\ pc = "main"
    /\ IsListInvocation(argv)
    /\ pc' = "get_tofu_outputs"
    /\ UNCHANGED << argv, tofu, spawned, child, outputs, public_ip, ssh_user,
                    inventory, stdout, stderr, exitcode >>

\* main, line 87-89.
MainHost ==
    /\ pc = "main"
    /\ ~IsListInvocation(argv)
    /\ IsHostInvocation(argv)
    /\ stdout' = Append(stdout, EmptyObjectText)
    /\ exitcode' = 0
    /\ pc' = "exit"
    /\ UNCHANGED << argv, tofu, spawned, child, outputs, public_ip, ssh_user,
                    inventory, stderr >>

\* main, line 90-92.
MainUsage ==
    /\ pc = "main"
    /\ ~IsListInvocation(argv)
    /\ ~IsHostInvocation(argv)
    /\ Die(MsgUsage)
    /\ UNCHANGED << argv, tofu, spawned, child, outputs, public_ip, ssh_user,
                    inventory, stdout >>

\* The step below with a second attempt when the command cannot be started.
SubprocessRunRetry ==
    /\ pc = "get_tofu_outputs"
    /\ spawned < 2
    /\ spawned' = spawned + 1
    /\ IF tofu.lookup = "ok"
       THEN /\ child' = "running"
            /\ pc' = "communicate"
            /\ UNCHANGED << stderr, exitcode >>
       ELSE /\ UNCHANGED << child, pc, stderr, exitcode >>
    /\ UNCHANGED << argv, tofu, outputs, public_ip, ssh_user, inventory, stdout >>
\* get_tofu_outputs, line 22: subprocess.run starts the child.  Without a
\* tofu on the search path it raises FileNotFoundError (handled, line 35);
\* with one that may not be executed it raises PermissionError (no handler).
SubprocessRun ==
    /\ pc = "get_tofu_outputs"
    /\ spawned' = spawned + 1
    /\ CASE tofu.lookup = "missing" -> Die(MsgFileNotFound) /\ UNCHANGED child
         [] tofu.lookup = "noexec"  -> Uncaught("PermissionError") /\ UNCHANGED child
         [] tofu.lookup = "ok"      -> /\ child' = "running"
                                       /\ pc' = "communicate"
                                       /\ UNCHANGED << stderr, exitcode >>
    /\ UNCHANGED << argv, tofu, outputs, public_ip, ssh_user, inventory, stdout >>

\* subprocess.run, lines 22-27: waits for the child, decodes what it wrote
\* (text=True) and, with check=True, raises CalledProcessError on a non-zero
\* exit status (handled, line 29).  Undecodable output raises
\* UnicodeDecodeError (no handler).
Communicate ==
    /\ pc = "communicate"
    /\ child' = "exited"
    /\ IF tofu.out.kind = "bytes" THEN Uncaught("UnicodeDecodeError")
       ELSE IF tofu.returncode # 0 THEN Die(MsgCalledProcessError(tofu.returncode))
       ELSE /\ pc' = "json_loads"
            /\ UNCHANGED << stderr, exitcode >>
    /\ UNCHANGED << argv, tofu, spawned, outputs, public_ip, ssh_user, inventory, stdout >>

\* line 28: json.loads(result.stdout); JSONDecodeError is handled at line 32.
JsonLoads ==
    /\ pc = "json_loads"
    /\ IF tofu.out.kind = "json"
       THEN /\ outputs' = tofu.out.doc
            /\ pc' = "line50"
            /\ UNCHANGED << stderr, exitcode >>
       ELSE /\ Die(MsgJSONDecodeError)
            /\ UNCHANGED outputs
    /\ UNCHANGED << argv, tofu, spawned, child, public_ip, ssh_user, inventory, stdout >>

\* line 50
ExtractPublicIp ==
    /\ pc = "line50"
    /\ LET r == GetPublicIp(outputs) IN
       IF r.exc # "" THEN Uncaught(r.exc) /\ UNCHANGED public_ip
       ELSE /\ public_ip' = r.val
            /\ pc' = "line51"
            /\ UNCHANGED << stderr, exitcode >>
    /\ UNCHANGED << argv, tofu, spawned, child, outputs, ssh_user, inventory, stdout >>

\* line 51
ExtractSshUser ==
    /\ pc = "line51"
    /\ LET r == GetSshUser(outputs) IN
       IF r.exc # "" THEN Uncaught(r.exc) /\ UNCHANGED ssh_user
       ELSE /\ ssh_user' = r.val
            /\ pc' = "line53"
            /\ UNCHANGED << stderr, exitcode >>
    /\ UNCHANGED << argv, tofu, spawned, child, outputs, public_ip, inventory, stdout >>

\* The check below without the sys.exit(1) of line 55.
CheckPublicIpNoExit ==
    /\ pc = "line53"
    /\ IF ~Truthy(public_ip)
       THEN /\ stderr' = Append(stderr, MsgNoPublicIp)
            /\ pc' = "line58"
            /\ UNCHANGED exitcode
       ELSE /\ pc' = "line58"
            /\ UNCHANGED << stderr, exitcode >>
    /\ UNCHANGED << argv, tofu, spawned, child, outputs, public_ip, ssh_user,
                    inventory, stdout >>
\* lines 53-55
CheckPublicIp ==
    /\ pc = "line53"
    /\ IF ~Truthy(public_ip)
       THEN Die(MsgNoPublicIp)
       ELSE /\ pc' = "line58"
            /\ UNCHANGED << stderr, exitcode >>
    /\ UNCHANGED << argv, tofu, spawned, child, outputs, public_ip, ssh_user,
                    inventory, stdout >>

\* lines 58-76: the dict display raises TypeError for an unhashable key.
BuildDocument ==
    /\ pc = "line58"
    /\ IF ~Hashable(public_ip)
       THEN Uncaught("TypeError") /\ UNCHANGED inventory
       ELSE /\ inventory' = InventoryDict(public_ip, ssh_user)
            /\ pc' = "print"
            /\ UNCHANGED << stderr, exitcode >>
    /\ UNCHANGED << argv, tofu, spawned, child, outputs, public_ip, ssh_user, stdout >>

\* line 86, then main returns and the process ends with status 0.
PrintInventory ==
    /\ pc = "print"
    /\ stdout' = Append(stdout, JsonDumps(inventory, 2))
    /\ exitcode' = 0
    /\ pc' = "exit"
    /\ UNCHANGED << argv, tofu, spawned, child, outputs, public_ip, ssh_user,
                    inventory, stderr >>

Next ==
    \/ MainList
    \/ MainHost
    \/ MainUsage
    \/ SubprocessRun
    \/ Communicate
    \/ JsonLoads
    \/ ExtractPublicIp
    \/ ExtractSshUser
    \/ CheckPublicIp
    \/ BuildDocument
    \/ PrintInventory

Spec == Init /\ [][Next]_vars

-----------------------------------------------------------------------------
(* Properties *)

\* The command line is `--list` and nothing else.
ListForm == Len(argv) = 2 /\ argv[2] = "--list"

\* The command line is `--host <name>`.
HostForm == Len(argv) = 3 /\ argv[2] = "--host"

Exited == pc = "exit"

\* The parsed state output has the documented shape: a mapping whose
\* ssh_user entry, when there is one, is an object.
SshUserEntryOk == outputs.ssh_user.k \in { "missing", "obj" }

\* instance_public_ip.value is a non-empty string.
HasPublicIp ==
    /\ outputs.k = "mapping"
    /\ outputs.instance_public_ip.k = "obj"
    /\ outputs.instance_public_ip.has
    /\ outputs.instance_public_ip.value.t = "str"
    /\ outputs.instance_public_ip.value.s # ""

\* The raw public address.
RawIp == outputs.instance_public_ip.value

\* C1: when instance_public_ip.value is a non-empty string, the document
\* build_inventory builds, and the document --list prints, has
\* web_servers.hosts = [publicIp] and _meta.hostvars with exactly one key,
\* which is publicIp, the entry of the hosts list, and whose ansible_host is
\* publicIp; and with a well-formed ssh_user entry the run ends with that
\* document printed.
C1_HostAddressableBothWays ==
    /\ (HasPublicIp /\ inventory # NoInventory) =>
          /\ inventory.web_servers.hosts = << RawIp >>
          /\ DOMAIN inventory.meta.hostvars = { RawIp }
          /\ inventory.meta.hostvars[RawIp].ansible_host = RawIp
    /\ (HasPublicIp /\ ListForm /\ stdout # << >>) =>
          /\ Len(stdout) = 1
          /\ stdout[1].web_servers.hosts = << RawIp >>
          /\ DOMAIN stdout[1].meta.hostvars = { RawIp.s }
          /\ stdout[1].meta.hostvars[RawIp.s].ansible_host = RawIp
    /\ (HasPublicIp /\ SshUserEntryOk /\ Exited) =>
          /\ inventory # NoInventory
          /\ stdout = << JsonDumps(inventory, 2) >>

C1_Witness ==
    /\ Exited
    /\ ListForm
    /\ outputs = Mapping(ObjValue(Str("203.0.113.5")), ObjValue(Str("ubuntu")))
    /\ Len(stdout) = 1
    /\ stdout[1].web_servers.hosts = << Str("203.0.113.5") >>

\* The ansible_user the state output asks for.
ExpectedUser ==
    IF outputs.ssh_user.k = "obj" /\ outputs.ssh_user.has
    THEN outputs.ssh_user.value
    ELSE Str("ec2-user")

\* The two ansible_user fields of a document are both u.
BothUsers(doc, u) ==
    /\ doc.web_servers.vars.ansible_user = u
    /\ DOMAIN doc.meta.hostvars # {}
    /\ \A h \in DOMAIN doc.meta.hostvars : doc.meta.hostvars[h].ansible_user = u

\* C2: in every document build_inventory produces (and --list prints) the
\* two ansible_user fields are equal, and equal ssh_user.value when it is
\* present and "ec2-user" when the ssh_user key or its value is absent.
C2_AnsibleUser ==
    /\ inventory # NoInventory => BothUsers(inventory, ExpectedUser)
    /\ (ListForm /\ stdout # << >>) => BothUsers(stdout[1], ExpectedUser)

C2_Witness ==
    /\ Exited
    /\ ListForm
    /\ outputs.k = "mapping"
    /\ outputs.ssh_user = MissingEntry
    /\ Len(stdout) = 1
    /\ stdout[1].web_servers.vars.ansible_user = Str("ec2-user")

\* instance_public_ip is missing from the mapping, or has no value, or its
\* value is the empty string.
PublicIpMissingOrEmpty ==
    /\ outputs.k = "mapping"
    /\ \/ outputs.instance_public_ip.k = "missing"
       \/ /\ outputs.instance_public_ip.k = "obj"
          /\ \/ ~outputs.instance_public_ip.has
             \/ outputs.instance_public_ip.value = Str("")

\* C3: if instance_public_ip is missing, or its value is absent or "", a
\* --list run ends with the missing-public-IP message on the error stream,
\* a non-zero exit status and nothing on standard output.
C3_MissingIpReported ==
    (ListForm /\ Exited /\ PublicIpMissingOrEmpty) =>
        /\ stderr = << MsgNoPublicIp >>
        /\ exitcode \notin { 0, NotExited }
        /\ stdout = << >>

\* C4: `--host <name>` writes {} to standard output and exits 0, writes
\* nothing to the error stream, whatever the external command would do.
C4_HostPrintsEmptyObject ==
    HostForm =>
        /\ stderr = << >>
        /\ Exited => (stdout = << "{}" >> /\ exitcode = 0)
        /\ ~Exited => (pc = "main" /\ stdout = << >>)

C4_Witness ==
    /\ HostForm
    /\ Exited
    /\ argv[3] = "--list"
    /\ tofu.lookup = "missing"
    /\ stdout = << "{}" >>

\* C5: an invocation that is neither `--list` nor `--host <name>` writes the
\* usage message to the error stream, exits 1 and writes nothing to
\* standard output.
C5_UsageOnBadInvocation ==
    (~ListForm /\ ~HostForm) =>
        /\ stdout = << >>
        /\ Exited => (stderr = << MsgUsage >> /\ exitcode = 1)
        /\ ~Exited => (pc = "main" /\ stderr = << >>)

C5_Witness ==
    /\ Exited
    /\ argv = << ProgramName, "--list", "web1" >>
    /\ stderr = << MsgUsage >>

\* C6: a finished --list run has either printed the complete document,
\* written nothing to the error stream and exited 0, or printed nothing,
\* written exactly one message to the error stream and exited non-zero.
C6_NoPartialSuccess ==
    (ListForm /\ Exited) =>
        \/ /\ inventory # NoInventory
           /\ stdout = << JsonDumps(inventory, 2) >>
           /\ stderr = << >>
           /\ exitcode = 0
        \/ /\ stdout = << >>
           /\ Len(stderr) = 1
           /\ exitcode \notin { 0, NotExited }

C6_Witness ==
    /\ ListForm
    /\ Exited
    /\ child = "exited"
    /\ outputs # NotParsed
    /\ stdout = << >>
    /\ Len(stderr) = 1
    /\ exitcode = 1

\* The State Reader's failure conditions, as facts about the external command.
CommandNotFound == tofu.lookup \in { "missing", "noexec" }
CommandFailed   == tofu.lookup = "ok" /\ tofu.returncode # 0
MalformedOutput == tofu.lookup = "ok" /\ tofu.out.kind \in { "bytes", "garbage" }

\* What the process writes for each of them.
NotFoundDiagnostics  == { MsgFileNotFound, Traceback("PermissionError") }
FailedDiagnostics    == { MsgCalledProcessError(rc) : rc \in ReturnCodes \ {0} }
MalformedDiagnostics == { MsgJSONDecodeError, Traceback("UnicodeDecodeError") }

\* The diagnostics of the failure conditions that hold.
DiagnosticsOfRun ==
    (IF CommandNotFound THEN NotFoundDiagnostics ELSE {})
    \cup (IF CommandFailed THEN FailedDiagnostics ELSE {})
    \cup (IF MalformedOutput THEN MalformedDiagnostics ELSE {})

\* C7: each State Reader failure (command not found or not executable,
\* non-zero exit status, output that is not valid structured data) ends the
\* run with a non-zero exit status and one diagnostic on the error stream
\* that belongs to a failure that occurred, and the diagnostics of the three
\* kinds are pairwise different.
C7_ReaderFailures ==
    /\ NotFoundDiagnostics \cap FailedDiagnostics = {}
    /\ NotFoundDiagnostics \cap MalformedDiagnostics = {}
    /\ FailedDiagnostics \cap MalformedDiagnostics = {}
    /\ (ListForm /\ Exited /\ (CommandNotFound \/ CommandFailed \/ MalformedOutput)) =>
          /\ exitcode \notin { 0, NotExited }
          /\ stdout = << >>
          /\ Len(stderr) = 1
          /\ stderr[1] \in DiagnosticsOfRun

C7_Witness ==
    /\ ListForm
    /\ Exited
    /\ tofu.lookup = "ok"
    /\ tofu.returncode = 0
    /\ tofu.out.kind = "garbage"
    /\ stderr = << MsgJSONDecodeError >>
    /\ exitcode = 1

\* C8: when the external command exits non-zero (its output being text),
\* what it wrote to its error stream is contained in what the process writes
\* to its own error stream.
C8_ChildErrorSurfaced ==
    (ListForm /\ Exited /\ child = "exited" /\ tofu.out.kind # "bytes" /\ tofu.returncode # 0) =>
        \E i \in 1..Len(stderr) : Contains(stderr[i], tofu.err)

\* C9: for every value the State Reader returns, build_inventory either
\* returns a complete document or fails with the missing-public-IP error.
C9_OnlyMissingFieldError ==
    (ListForm /\ Exited /\ outputs # NotParsed) =>
        \/ /\ inventory # NoInventory
           /\ stdout = << JsonDumps(inventory, 2) >>
           /\ stderr = << >>
        \/ /\ stdout = << >>
           /\ stderr = << MsgNoPublicIp >>

\* C10: the external command is started at most once; a --list run starts it
\* exactly once and it has exited before any field is read or anything is
\* printed; --host and invalid invocations never start it.
C10_SpawnedOnce ==
    /\ spawned <= 1
    /\ ~ListForm => (spawned = 0 /\ child = "none")
    /\ (ListForm /\ Exited) => spawned = 1
    /\ (child # "none") => spawned = 1
    /\ (pc \in { "json_loads", "line50", "line51", "line53", "line58", "print" }
          \/ outputs # NotParsed \/ public_ip # Unset \/ ssh_user # Unset
          \/ inventory # NoInventory \/ stdout # << >>) =>
          (ListForm => (spawned = 1 /\ child = "exited"))

C10_Witness ==
    /\ ListForm
    /\ Exited
    /\ spawned = 1
    /\ child = "exited"
    /\ tofu.returncode # 0
    /\ stderr = << MsgCalledProcessError(tofu.returncode) >>

====
